---- MODULE Spec2Model ----
(***************************************************************************)
(* State-machine model of obspy/segy/benchmark.py: _calcOffset and the     *)
(* stages of plotBenchmark (trim, offsets, normalize, figure, plot loop,   *)
(* axis limits, output).                                                   *)
(*                                                                         *)
(* Numbers.  The code computes with IEEE floats (numpy arrays and Python   *)
(* floats).  A number is modelled as a pair <<n, d>>: the exact rational   *)
(* n/d (d > 0, lowest terms), or one of the three IEEE specials            *)
(* <<1,0>> = +Inf, <<-1,0>> = -Inf, <<0,0>> = NaN.  Rounding is not        *)
(* modelled; division by zero, Inf and NaN follow numpy's rules (a         *)
(* RuntimeWarning, never an exception).  All zero divisors that occur are  *)
(* +0.0 (abs() of a range over a non-negative spacing times a positive     *)
(* scale), so the sign of zero is not tracked.                             *)
(* None is modelled as the empty tuple for numeric options and as the      *)
(* string "None" for fig / outfile / format.                               *)
(*                                                                         *)
(* The loops over traces take one step per trace.  File names in sufiles   *)
(* are resolved by readSU to objects of their own and appear as object     *)
(* ids.  Titles, labels, legend and line colours are calls into matplotlib *)
(* that change nothing modelled here, except the palette construction for  *)
(* more than five streams, which raises.                                   *)
(***************************************************************************)
EXTENDS Integers, Sequences, FiniteSets, TLC

VARIABLES
    sufiles,                 \* argument: sequence of SUFile objects (heap ids)
    heap,                    \* heap[o] = traces of SUFile object o (header, data)
    heap0,                   \* the caller's objects as they were at call time
    normalize, clip_partial_traces, trim_to_smallest_trace, scale,
    xmin, xmax, ymin, ymax,  \* arguments (None = <<>>)
    fig, outfile, format,    \* arguments ("None" = absent)
    pc,                      \* position in plotBenchmark
    streams, delta, npts,    \* locals of plotBenchmark
    temp, offsets, min_offset, data_range,
    si, tj,                  \* loop positions: stream index, trace index
    fig_, offset,            \* _fig ("None" | "new" | the caller's), last offset
    min_y, max_y, max_x,     \* running bounds of the plot loop
    drawn,                   \* <<stream index, trace index>> passed to ax.plot
    seen,                    \* <<stream index, trace index>> visited by the plot loop
    ylim, xlim,              \* ax.set_ylim / ax.set_xlim arguments
    outputs, retval,         \* output actions performed, return value
    normCount,               \* normCount[o][t]: times trace t of o was divided
    zeroRange                \* a division by a zero data_range has happened

vars == <<sufiles, heap, heap0, normalize, clip_partial_traces,
          trim_to_smallest_trace, scale, xmin, xmax, ymin, ymax, fig, outfile,
          format, pc, streams, delta, npts, temp, offsets, min_offset,
          data_range, si, tj, fig_, offset, min_y, max_y, max_x, drawn, seen,
          ylim, xlim, outputs, retval, normCount, zeroRange>>

args == <<sufiles, normalize, clip_partial_traces, trim_to_smallest_trace,
          scale, xmin, xmax, ymin, ymax, fig, outfile, format>>

----------------------------------------------------------------------------
(* Bounds of the model *)

MaxStreams == 2
MaxTraces == 2
MaxNpts == 2

(* Program constants *)

ExpBase == 10
ExpLimit == 10
PadDivisor == 50
PaletteSize == 5
MicroPerSecond == 1000000

----------------------------------------------------------------------------
(* Float arithmetic *)

None == <<>>
NaN == <<0, 0>>
PInf == <<1, 0>>
NInf == <<-1, 0>>
Zero == <<0, 1>>

AbsInt(n) == IF n < 0 THEN -n ELSE n
SgnInt(n) == IF n < 0 THEN -1 ELSE IF n = 0 THEN 0 ELSE 1

RECURSIVE GCD(_, _)
GCD(a, b) == IF b = 0 THEN a ELSE GCD(b, a % b)

Norm(n, d) ==
    IF d = 0 THEN <<SgnInt(n), 0>>
    ELSE LET g == GCD(AbsInt(n), AbsInt(d))
         IN  <<(SgnInt(d) * n) \div g, AbsInt(d) \div g>>

Num(k) == <<k, 1>>
IsNaN(a) == a = NaN
IsFinite(a) == a[2] # 0

Neg(a) == <<-a[1], a[2]>>
Add(a, b) ==
    IF a[2] = 0 /\ b[2] = 0
    THEN (IF a = b /\ a # NaN THEN a ELSE NaN)
    ELSE Norm(a[1] * b[2] + b[1] * a[2], a[2] * b[2])
Sub(a, b) == Add(a, Neg(b))
Mul(a, b) == Norm(a[1] * b[1], a[2] * b[2])
Recip(a) == IF a = Zero THEN PInf ELSE <<SgnInt(a[1]) * a[2], AbsInt(a[1])>>
Div(a, b) == Mul(a, Recip(b))
FAbs(a) == <<AbsInt(a[1]), a[2]>>

Lt(a, b) ==
    IF IsNaN(a) \/ IsNaN(b) THEN FALSE
    ELSE IF a[2] = 0 /\ b[2] = 0 THEN a[1] < b[1]
    ELSE a[1] * b[2] < b[1] * a[2]
Gt(a, b) == Lt(b, a)
Le(a, b) == (~IsNaN(a) /\ ~IsNaN(b)) /\ ~Lt(b, a)

RECURSIVE Pow(_, _)
Pow(b, e) == IF e = 0 THEN 1 ELSE b * Pow(b, e - 1)

\* math.sqrt on the squared distances of the model, which are all perfect
\* squares (the root is then exact in floating point too): bisection
RECURSIVE SqrtIn(_, _, _)
SqrtIn(n, lo, hi) ==
    IF lo >= hi THEN lo
    ELSE LET mid == (lo + hi + 1) \div 2
         IN  IF mid * mid <= n THEN SqrtIn(n, mid, hi) ELSE SqrtIn(n, lo, mid - 1)
Sqrt(n) == SqrtIn(n, 0, IF n < 46340 THEN n ELSE 46340)

\* Python's builtin max()/min(): keep the first item, replace it by a later
\* item that compares greater / smaller.
RECURSIVE PyMaxFrom(_, _, _)
PyMaxFrom(s, k, m) ==
    IF k > Len(s) THEN m
    ELSE PyMaxFrom(s, k + 1, IF Gt(s[k], m) THEN s[k] ELSE m)
PyMax(s) == PyMaxFrom(s, 2, s[1])

RECURSIVE PyMinFrom(_, _, _)
PyMinFrom(s, k, m) ==
    IF k > Len(s) THEN m
    ELSE PyMinFrom(s, k + 1, IF Lt(s[k], m) THEN s[k] ELSE m)
PyMin(s) == PyMinFrom(s, 2, s[1])

\* numpy's ndarray.max()/min(): NaN if any item is NaN.
NpMax(s) == IF \E k \in 1..Len(s) : IsNaN(s[k]) THEN NaN ELSE PyMax(s)
NpMin(s) == IF \E k \in 1..Len(s) : IsNaN(s[k]) THEN NaN ELSE PyMin(s)

----------------------------------------------------------------------------
(* _calcOffset *)

\* the scale read as an exponent even when it is 1
calcOffsetUnitAsExponent(th) ==
    LET s0 == AbsInt(th.scalar_to_be_applied_to_all_coordinates)
        scalco == IF s0 < ExpLimit THEN Pow(ExpBase, s0) ELSE s0
        dx == th.group_coordinate_x - th.source_coordinate_x
        dy == th.group_coordinate_y - th.source_coordinate_y
    IN  Mul(Norm(1, scalco), Num(Sqrt(Pow(dx, 2) + Pow(dy, 2))))

\* the exponent reading limited to 2..9, so that a scale of 0 stays 0
calcOffsetZeroDivisor(th) ==
    LET s0 == AbsInt(th.scalar_to_be_applied_to_all_coordinates)
        scalco == IF 1 < s0 /\ s0 < ExpLimit THEN Pow(ExpBase, s0) ELSE s0
        dx == th.group_coordinate_x - th.source_coordinate_x
        dy == th.group_coordinate_y - th.source_coordinate_y
    IN  Mul(Norm(1, scalco), Num(Sqrt(Pow(dx, 2) + Pow(dy, 2))))

calcOffset(th) ==
    LET s0 == AbsInt(th.scalar_to_be_applied_to_all_coordinates)
        scalco == IF s0 < ExpLimit /\ s0 # 1 THEN Pow(ExpBase, s0) ELSE s0
        dx == th.group_coordinate_x - th.source_coordinate_x
        dy == th.group_coordinate_y - th.source_coordinate_y
    IN  Mul(Norm(1, scalco), Num(Sqrt(Pow(dx, 2) + Pow(dy, 2))))

----------------------------------------------------------------------------
(* plotBenchmark *)

Traces(k) == heap[streams[k]]
NTraces(k) == Len(heap[streams[k]])

\* max([_i.data.max() for _i in st.traces]) and the matching min
StreamMax(k) == PyMax([t \in 1..NTraces(k) |-> NpMax(Traces(k)[t].data)])
StreamMin(k) == PyMin([t \in 1..NTraces(k) |-> NpMin(Traces(k)[t].data)])

\* loop bookkeeping: the position after (si, tj) in "for st: for tr:"
LastTrace == tj = NTraces(si)
LastStream == si = Len(streams)
Step(here, next) ==
    IF ~LastTrace THEN /\ tj' = tj + 1 /\ si' = si /\ pc' = here
    ELSE IF ~LastStream THEN /\ tj' = 1 /\ si' = si + 1 /\ pc' = here
    ELSE /\ tj' = 1 /\ si' = 1 /\ pc' = next

\* lines 124-125
ReturnEmpty ==
    /\ pc = "start"
    /\ sufiles = <<>>
    /\ pc' = "done"
    /\ retval' = "None"
    /\ UNCHANGED <<args, heap, heap0, streams, delta, npts, temp, offsets,
                   min_offset, data_range, si, tj, fig_, offset, min_y, max_y,
                   max_x, drawn, seen, ylim, xlim, outputs, normCount,
                   zeroRange>>

\* lines 127-139
Start ==
    /\ pc = "start"
    /\ sufiles # <<>>
    /\ streams' = sufiles
    /\ delta' = heap[sufiles[1]][1].header.sample_interval_in_ms_for_this_trace
    /\ pc' = IF trim_to_smallest_trace THEN "search" ELSE "offsets"
    /\ UNCHANGED <<args, heap, heap0, npts, temp, offsets, min_offset,
                   data_range, si, tj, fig_, offset, min_y, max_y, max_x,
                   drawn, seen, ylim, xlim, outputs, retval, normCount,
                   zeroRange>>

MinInt(S) == CHOOSE m \in S : \A n \in S : m <= n

\* lines 141-144
SearchSmallest ==
    /\ pc = "search"
    /\ npts' = MinInt({MinInt({Len(Traces(k)[t].data) : t \in 1..NTraces(k)}) :
                          k \in 1..Len(streams)})
    /\ pc' = "trim"
    /\ UNCHANGED <<args, heap, heap0, streams, delta, temp, offsets,
                   min_offset, data_range, si, tj, fig_, offset, min_y, max_y,
                   max_x, drawn, seen, ylim, xlim, outputs, retval, normCount,
                   zeroRange>>

\* the slice taken from the end: data[-npts:]
TrimDataTail(data, n) == SubSeq(data, Len(data) - n + 1, Len(data))

\* line 148: tr.data[0:npts]
TrimData(data, n) == SubSeq(data, 1, n)

\* lines 146-148, one trace
TrimTrace ==
    /\ pc = "trim"
    /\ heap' = [heap EXCEPT ![streams[si]][tj].data = TrimData(@, npts)]
    /\ Step("trim", "offsets")
    /\ UNCHANGED <<args, heap0, streams, delta, npts, temp, offsets,
                   min_offset, data_range, fig_, offset, min_y, max_y, max_x,
                   drawn, seen, ylim, xlim, outputs, retval, normCount,
                   zeroRange>>

\* lines 152-157, one stream
GetOffsets ==
    /\ pc = "offsets"
    /\ LET tmp == [t \in 1..NTraces(si) |-> calcOffset(Traces(si)[t].header)]
           offs == Append(offsets,
                          Div(Sub(PyMax(tmp), PyMin(tmp)), Num(NTraces(si))))
       IN  /\ temp' = tmp
           /\ offsets' = offs
           /\ IF LastStream
              THEN /\ min_offset' = PyMin(offs)
                   /\ si' = 1
                   /\ pc' = "range"
              ELSE /\ min_offset' = min_offset
                   /\ si' = si + 1
                   /\ pc' = "offsets"
    /\ UNCHANGED <<args, heap, heap0, streams, delta, npts, data_range, tj,
                   fig_, offset, min_y, max_y, max_x, drawn, seen, ylim, xlim,
                   outputs, retval, normCount, zeroRange>>

\* lines 160-168
GlobalRange ==
    /\ pc = "range"
    /\ data_range' =
         IF normalize # "stream"
         THEN Sub(PyMax([k \in 1..Len(streams) |-> StreamMax(k)]),
                  PyMin([k \in 1..Len(streams) |-> StreamMin(k)]))
         ELSE data_range
    /\ pc' = "normalize"
    /\ UNCHANGED <<args, heap, heap0, streams, delta, npts, temp, offsets,
                   min_offset, si, tj, fig_, offset, min_y, max_y, max_x,
                   drawn, seen, ylim, xlim, outputs, retval, normCount,
                   zeroRange>>

\* lines 170-176: the range that divides trace tj of stream si.  In "stream"
\* mode data_range is assigned once per stream, before its first trace is
\* rescaled (lines 170-172); the later traces of the stream reuse it.
RangeFor(k, t) ==
    LET perStream == IF normalize = "stream" /\ t = 1
                     THEN Sub(StreamMax(k), StreamMin(k))
                     ELSE data_range
        perTrace == IF normalize = "traces"
                    THEN Sub(NpMax(Traces(k)[t].data), NpMin(Traces(k)[t].data))
                    ELSE perStream
    IN  FAbs(perTrace)

\* line 177: tr.data /= (data_range / (min_offset * scale))
Rescale(data, range) ==
    LET divisor == Div(range, Mul(min_offset, scale))
    IN  [n \in 1..Len(data) |-> Div(data[n], divisor)]

\* lines 169-177, one trace
NormalizeTrace ==
    /\ pc = "normalize"
    /\ LET range == RangeFor(si, tj)
       IN  /\ data_range' = range
           /\ heap' = [heap EXCEPT ![streams[si]][tj].data = Rescale(@, range)]
           /\ zeroRange' = (zeroRange \/ range = Zero)
    /\ normCount' = [normCount EXCEPT ![streams[si]][tj] = @ + 1]
    /\ Step("normalize", "figure")
    /\ UNCHANGED <<args, heap0, streams, delta, npts, temp, offsets,
                   min_offset, fig_, offset, min_y, max_y, max_x, drawn, seen,
                   ylim, xlim, outputs, retval>>

\* lines 180-219.  The labels and the preset colours have no effect on the
\* state modelled here; with more than five streams line 212 iterates over
\* the integer len(streams), which raises TypeError before anything is drawn.
SetupFigure ==
    /\ pc = "figure"
    /\ fig_' = IF fig = "None" THEN "new" ELSE fig
    /\ IF Len(streams) > PaletteSize
       THEN /\ pc' = "raised"
            /\ retval' = "TypeError"
            /\ UNCHANGED <<min_y, max_y, max_x>>
       ELSE /\ pc' = "plot"
            /\ retval' = retval
            /\ min_y' = PInf
            /\ max_y' = NInf
            /\ max_x' = NInf
    /\ UNCHANGED <<args, heap, heap0, streams, delta, npts, temp, offsets,
                   min_offset, data_range, si, tj, offset, drawn, seen, ylim,
                   xlim, outputs, normCount, zeroRange>>

\* line 229 and line 230
ShiftedY(data, off) == [n \in 1..Len(data) |-> Add(data[n], off)]
TimeX(data, dt) == [n \in 1..Len(data) |-> Norm((n - 1) * dt, MicroPerSecond)]

\* the test against ymax alone
ClippedAboveOnly(y) ==
    /\ clip_partial_traces
    /\ ymax # None /\ Gt(PyMax(y), ymax)

\* lines 239-243
Clipped(y) ==
    /\ clip_partial_traces
    /\ \/ ymin # None /\ Lt(PyMin(y), ymin)
       \/ ymax # None /\ Gt(PyMax(y), ymax)

\* lines 225-249, one trace
PlotTrace ==
    /\ pc = "plot"
    /\ LET off == calcOffset(Traces(si)[tj].header)
           y == ShiftedY(Traces(si)[tj].data, off)
           x == TimeX(Traces(si)[tj].data, delta)
       IN  /\ offset' = off
           /\ max_y' = IF Gt(PyMax(y), max_y) THEN PyMax(y) ELSE max_y
           /\ min_y' = IF Lt(PyMin(y), min_y) THEN PyMin(y) ELSE min_y
           /\ max_x' = IF Gt(PyMax(x), max_x) THEN PyMax(x) ELSE max_x
           /\ drawn' = IF Clipped(y) THEN drawn ELSE drawn \cup {<<si, tj>>}
    /\ seen' = seen \cup {<<si, tj>>}
    /\ Step("plot", "limits")
    /\ UNCHANGED <<args, heap, heap0, streams, delta, npts, temp, offsets,
                   min_offset, data_range, fig_, ylim, xlim, outputs, retval,
                   normCount, zeroRange>>

\* explicit bounds kept when they lie outside the data, replaced inside it
OffsetAxisExpandOnly ==
    LET spacing == Div(Sub(max_y, min_y), Num(PadDivisor))
        hi == IF ymax = None \/ Lt(ymax, max_y) THEN Add(max_y, spacing) ELSE ymax
        lo == IF ymin = None \/ Gt(ymin, min_y) THEN Sub(min_y, spacing) ELSE ymin
    IN  <<lo, hi>>

\* lines 252-257: the pair handed to ax.set_ylim
OffsetAxis ==
    LET spacing == Div(Sub(max_y, min_y), Num(PadDivisor))
        hi == IF ymax = None \/ Gt(ymax, max_y) THEN Add(max_y, spacing) ELSE ymax
        lo == IF ymin = None \/ Lt(ymin, min_y) THEN Sub(min_y, spacing) ELSE ymin
    IN  <<lo, hi>>

\* a negative xmin passed through
TimeAxisNoFloor ==
    LET lo == IF xmin = None THEN Zero ELSE xmin
        hi == IF xmax = None \/ Gt(xmax, max_x) THEN max_x ELSE xmax
    IN  <<lo, hi>>

\* lines 260-264: the pair handed to ax.set_xlim
TimeAxis ==
    LET lo == IF xmin = None \/ Lt(xmin, Zero) THEN Zero ELSE xmin
        hi == IF xmax = None \/ Gt(xmax, max_x) THEN max_x ELSE xmax
    IN  <<lo, hi>>

\* lines 251-264
SetLimits ==
    /\ pc = "limits"
    /\ ylim' = OffsetAxis
    /\ xlim' = TimeAxis
    /\ pc' = "output"
    /\ UNCHANGED <<args, heap, heap0, streams, delta, npts, temp, offsets,
                   min_offset, data_range, si, tj, fig_, offset, min_y, max_y,
                   max_x, drawn, seen, outputs, retval, normCount, zeroRange>>

\* lines 282-299: <<action performed, value returned>>
OutputMode ==
    IF outfile = "None"
    THEN IF format \notin {"None", ""} THEN <<"imgdata", "imgdata">>
         ELSE IF fig = "None" THEN <<"show", "None">>
         ELSE <<"return_fig", fig>>
    ELSE <<"savefig", "None">>

\* lines 281-299
HandleOutput ==
    /\ pc = "output"
    /\ outputs' = Append(outputs, OutputMode[1])
    /\ retval' = OutputMode[2]
    /\ pc' = "done"
    /\ UNCHANGED <<args, heap, heap0, streams, delta, npts, temp, offsets,
                   min_offset, data_range, si, tj, fig_, offset, min_y, max_y,
                   max_x, drawn, seen, ylim, xlim, normCount, zeroRange>>

Next ==
    \/ ReturnEmpty
    \/ Start
    \/ SearchSmallest
    \/ TrimTrace
    \/ GetOffsets
    \/ GlobalRange
    \/ NormalizeTrace
    \/ SetupFigure
    \/ PlotTrace
    \/ SetLimits
    \/ HandleOutput

----------------------------------------------------------------------------
(* Inputs: the caller's SUFile objects and the keyword arguments *)

Hdr(scalco, sx, sy, gx, gy, dt) ==
    [scalar_to_be_applied_to_all_coordinates |-> scalco,
     source_coordinate_x |-> sx, source_coordinate_y |-> sy,
     group_coordinate_x |-> gx, group_coordinate_y |-> gy,
     sample_interval_in_ms_for_this_trace |-> dt]

Tr(h, d) == [header |-> h, data |-> d]

\* sample arrays of 1..MaxNpts samples over the integer values V
Arrays(V) == UNION {[1..n -> {Num(v) : v \in V}] : n \in 1..MaxNpts}
Arr(s) == [n \in 1..Len(s) |-> Num(s[n])]

\* SUFile objects holding 1..MaxTraces traces drawn from T
Files(T) == UNION {[1..n -> T] : n \in 1..MaxTraces}

\* argument lists of at most MaxStreams objects; a file name is resolved by
\* readSU to an object of its own, so it is one more object id
Range(s) == {s[k] : k \in 1..Len(s)}
SufileLists ==
    {s \in UNION {[1..n -> 1..MaxStreams] : n \in 0..MaxStreams} :
        \A k \in 1..Len(s) : s[k] <= 1 + Cardinality({s[m] : m \in 1..(k - 1)})}

Defaults ==
    [normalize |-> "traces", clip_partial_traces |-> TRUE,
     trim_to_smallest_trace |-> TRUE, scale |-> Num(3),
     xmin |-> None, xmax |-> None, ymin |-> None, ymax |-> None,
     fig |-> "None", outfile |-> "None", format |-> "None"]

\* the state at the call: objects drawn from First (object 1) and Others,
\* keyword arguments drawn from Kw.  Every collection holds at least one
\* trace and every trace at least one sample (the code indexes traces[0] and
\* takes max() of the samples), squared distances are perfect squares, and
\* scale is positive.
InitWith(Lists, First, Others, Kw) ==
    /\ sufiles \in Lists
    /\ \E first \in First : \E others \in [Range(sufiles) \ {1} -> Others] :
          heap = [o \in Range(sufiles) |-> IF o = 1 THEN first ELSE others[o]]
    /\ heap0 = heap
    /\ \E kw \in Kw :
          /\ normalize = kw.normalize
          /\ clip_partial_traces = kw.clip_partial_traces
          /\ trim_to_smallest_trace = kw.trim_to_smallest_trace
          /\ scale = kw.scale
          /\ xmin = kw.xmin /\ xmax = kw.xmax
          /\ ymin = kw.ymin /\ ymax = kw.ymax
          /\ fig = kw.fig /\ outfile = kw.outfile /\ format = kw.format
    /\ pc = "start"
    /\ streams = <<>> /\ delta = 0 /\ npts = 0
    /\ temp = <<>> /\ offsets = <<>>
    /\ min_offset = None /\ data_range = None
    /\ si = 1 /\ tj = 1
    /\ fig_ = "None" /\ offset = None
    /\ min_y = None /\ max_y = None /\ max_x = None
    /\ drawn = {} /\ seen = {}
    /\ ylim = None /\ xlim = None
    /\ outputs = <<>> /\ retval = "unset"
    /\ normCount = [o \in DOMAIN heap |-> [t \in 1..Len(heap[o]) |-> 0]]
    /\ zeroRange = FALSE

\* a geometry of two receivers 10 apart and a co-located one
H0 == Hdr(1, 0, 0, 0, 0, 4000)
H10 == Hdr(1, 0, 0, 6, 8, 4000)
H20 == Hdr(-10, 0, 0, 120, 160, 4000)

Init ==
    InitWith(SufileLists,
             Files({Tr(h, d) : h \in {H0, H10}, d \in Arrays({0, 1})}),
             Files({Tr(H20, Arr(<<1, 0>>)), Tr(H0, Arr(<<2>>))}),
             {[Defaults EXCEPT !.normalize = n, !.scale = Num(1)] :
                 n \in {"None", "stream", "traces"}})

Spec == Init /\ [][Next]_vars

----------------------------------------------------------------------------
(* Offsets: traces that differ in coordinate scale and geometry *)

OffsetHeaders ==
    {Hdr(0, 0, 0, 3, 4, 4000), Hdr(1, 1, 1, 1, 1, 4000),
     Hdr(-1, 0, 0, 6, 8, 4000), Hdr(2, 0, 0, 300, 400, 4000),
     Hdr(-3, 0, 0, 8000, 6000, 4000), Hdr(10, 2, 1, 32, 41, 4000),
     Hdr(-100, 0, 0, 0, 1500, 4000), Hdr(100, 0, 5, 0, 5, 4000)}

InitOffset ==
    InitWith(SufileLists,
             Files({Tr(h, Arr(<<0, 1>>)) : h \in OffsetHeaders}),
             {<<Tr(H10, Arr(<<0, 1>>))>>},
             {Defaults})

SpecOffset == InitOffset /\ [][Next]_vars

\* the stream whose offsets temp holds
TempStream == IF pc = "offsets" THEN si - 1 ELSE Len(streams)
TempHeader(k) == Traces(TempStream)[k].header
Scalco(th) == AbsInt(th.scalar_to_be_applied_to_all_coordinates)
Distance(th) ==
    Sqrt((th.group_coordinate_x - th.source_coordinate_x)
           * (th.group_coordinate_x - th.source_coordinate_x)
         + (th.group_coordinate_y - th.source_coordinate_y)
           * (th.group_coordinate_y - th.source_coordinate_y))
HeadersKept ==
    \A o \in DOMAIN heap : \A t \in 1..Len(heap[o]) :
        heap[o][t].header = heap0[o][t].header

\* C1: for a coordinate scale of absolute value s >= 1, _calcOffset returns
\* the Euclidean source-receiver distance divided by 10^s when 1 < s < 10 and
\* by s otherwise, whatever the sign of the field, and no header is modified.
C1_OffsetDivisor ==
    /\ HeadersKept
    /\ \A k \in 1..Len(temp) :
          LET s == Scalco(TempHeader(k))
              d == IF 1 < s /\ s < 10 THEN Pow(10, s) ELSE s
          IN  s >= 1 => temp[k] = Norm(Distance(TempHeader(k)), d)

\* C1 witness: one stream's offsets were computed for a negative scale read
\* as an exponent (8000-6000 geometry over 10^3) and for a multiplier scale
\* (30-40 geometry over 10)
C1_Witness ==
    /\ pc = "range"
    /\ \E k, m \in 1..Len(temp) :
          /\ TempHeader(k).scalar_to_be_applied_to_all_coordinates = -3
          /\ temp[k] = Num(10)
          /\ TempHeader(m).scalar_to_be_applied_to_all_coordinates = 10
          /\ temp[m] = Num(5)

ZeroScale(k, t) == Scalco(Traces(k)[t].header) = 0
SomeZeroScale ==
    \E k \in 1..Len(streams) : \E t \in 1..NTraces(k) : ZeroScale(k, t)

\* C2 as stated: with a coordinate scale of 0 the offset computation fails
\* (InvalidHeaderError) and the render aborts: no offset is returned for that
\* trace, nothing is drawn and nothing is output.
C2_ZeroScaleAborts ==
    SomeZeroScale =>
        /\ \A k \in 1..Len(temp) : Scalco(TempHeader(k)) # 0
        /\ drawn = {}
        /\ outputs = <<>>
        /\ pc # "done"

\* C2 amended: with a coordinate scale of 0 the divisor is 10^0 = 1, so
\* _calcOffset returns the plain Euclidean distance; no error is raised and
\* the render runs to its single output action.
C2_ZeroScaleIsUnit ==
    /\ \A k \in 1..Len(temp) :
          Scalco(TempHeader(k)) = 0 => temp[k] = Num(Distance(TempHeader(k)))
    /\ (pc = "done" /\ SomeZeroScale) => Len(outputs) = 1 /\ seen # {}

\* C2 witness: a finished render whose last stream holds a zero-scale trace
\* with offset 5
C2_Witness ==
    /\ pc = "done"
    /\ \E k \in 1..Len(temp) :
          /\ Scalco(TempHeader(k)) = 0
          /\ temp[k] = Num(5)
    /\ drawn # {}

----------------------------------------------------------------------------
(* Alignment: traces of different lengths, trimming on and off *)

Up(n) == [m \in 1..n |-> Num(m)]
Down(n) == [m \in 1..n |-> Num(n - m)]

InitAlign ==
    InitWith(SufileLists,
             Files({Tr(H10, Up(n)) : n \in 1..MaxNpts}
                     \cup {Tr(H0, Down(n)) : n \in 1..MaxNpts}),
             {<<Tr(H20, Down(MaxNpts))>>,
              <<Tr(H0, Up(1)), Tr(H20, Up(MaxNpts))>>},
             {[Defaults EXCEPT !.trim_to_smallest_trace = b] :
                 b \in BOOLEAN})

SpecAlign == InitAlign /\ [][Next]_vars

Objects == Range(streams)
\* the smallest sample count among the caller's traces
SmallestCount ==
    MinInt(UNION {{Len(heap0[o][t].data) : t \in 1..Len(heap0[o])} :
                     o \in Objects})
Aligned == pc \notin {"start", "search", "trim"} /\ streams # <<>>
NotYetNormalized == pc \in {"offsets", "range"}

\* C3: after the alignment stage, with trim_to_smallest_trace every trace
\* has exactly N samples, N the smallest sample count over all traces of all
\* collections, and they are its first N original samples in order; without
\* it every trace keeps its samples.  Headers are unchanged in both cases.
C3_AlignedToSmallest ==
    /\ HeadersKept
    /\ Aligned =>
          \A o \in Objects : \A t \in 1..Len(heap[o]) :
              Len(heap[o][t].data) =
                 IF trim_to_smallest_trace THEN SmallestCount
                 ELSE Len(heap0[o][t].data)
    /\ (Aligned /\ NotYetNormalized) =>
          \A o \in Objects : \A t \in 1..Len(heap[o]) :
              heap[o][t].data =
                 IF trim_to_smallest_trace
                 THEN [n \in 1..SmallestCount |-> heap0[o][t].data[n]]
                 ELSE heap0[o][t].data

\* C3 witness: two different collections were aligned and a trace lost
\* samples while another one already had the smallest count
C3_Witness ==
    /\ pc = "offsets"
    /\ trim_to_smallest_trace
    /\ Cardinality(Objects) = 2
    /\ \E o \in Objects : \E t \in 1..Len(heap[o]) :
          Len(heap[o][t].data) < Len(heap0[o][t].data)
    /\ \E o \in Objects : \E t \in 1..Len(heap[o]) :
          heap[o][t].data = heap0[o][t].data

----------------------------------------------------------------------------
(* Layout: explicit and absent y bounds, clipping on and off *)

LayoutTraces ==
    {Tr(H0, Arr(<<0, 1>>)), Tr(H10, Arr(<<-1, 1>>)), Tr(H10, Arr(<<0, 1>>)),
     Tr(H0, Arr(<<1, 1>>))}

InitLayout ==
    InitWith(SufileLists,
             Files(LayoutTraces),
             {<<Tr(H20, Arr(<<0, 1>>)), Tr(H10, Arr(<<1, 0>>))>>},
             {[Defaults EXCEPT !.clip_partial_traces = c, !.scale = Num(1),
                               !.ymin = lo, !.ymax = hi] :
                 c \in BOOLEAN, lo \in {None, Num(2), Num(-30)},
                 hi \in {None, Num(12), Num(40)}})

SpecLayout == InitLayout /\ [][Next]_vars

Plotting == pc \in {"plot", "limits", "output", "done"} /\ streams # <<>>
Limited == pc \in {"output", "done"} /\ streams # <<>>

\* C6 as stated, for renders without a zero amplitude range: the final
\* y-axis interval contains the observed range [min_y, max_y].
C6_AxisContainsData ==
    (Limited /\ ~zeroRange) => Le(ylim[1], min_y) /\ Le(max_y, ylim[2])

\* C6 amended: the upper bound is the explicit ymax when ymax <= max_y and
\* max_y + span/50 otherwise; the lower bound is the explicit ymin when
\* ymin >= min_y and min_y - span/50 otherwise (span = max_y - min_y).  An
\* explicit bound inside the observed range is kept and shrinks the axis; one
\* outside it is replaced by the padded observed bound.  Without explicit
\* bounds the axis is [min_y - span/50, max_y + span/50] and contains the data.
C6_AxisRule ==
    Limited =>
        LET pad == Div(Sub(max_y, min_y), Num(50))
        IN  /\ ylim[2] = IF ymax # None /\ ~Gt(ymax, max_y) THEN ymax
                         ELSE Add(max_y, pad)
            /\ ylim[1] = IF ymin # None /\ ~Lt(ymin, min_y) THEN ymin
                         ELSE Sub(min_y, pad)
            /\ (ymax # None /\ Le(ymax, max_y)) => ylim[2] = ymax
            /\ (ymin # None /\ Le(min_y, ymin)) => ylim[1] = ymin
            /\ (ymin = None /\ ymax = None /\ ~zeroRange) =>
                  /\ ylim = <<Sub(min_y, pad), Add(max_y, pad)>>
                  /\ Le(ylim[1], min_y) /\ Le(max_y, ylim[2])

\* C6 witness: an explicit ymax below the largest plotted value became the
\* upper axis bound while the lower bound was padded
C6_Witness ==
    /\ pc = "done" /\ streams # <<>>
    /\ ~zeroRange
    /\ ymax = Num(12) /\ Lt(ymax, max_y) /\ ylim[2] = ymax
    /\ ymin = None /\ Lt(ylim[1], min_y)

\* what the plot loop computes for trace t of stream k
YOf(k, t) == ShiftedY(Traces(k)[t].data, calcOffset(Traces(k)[t].header))
XOf(k, t) == TimeX(Traces(k)[t].data, delta)
NoneOutside(y) ==
    \A n \in 1..Len(y) :
        /\ ~(ymin # None /\ Lt(y[n], ymin))
        /\ ~(ymax # None /\ Gt(y[n], ymax))

\* C7: with clip_partial_traces a trace is drawn iff none of its
\* offset-shifted samples lies outside the caller-supplied ymin / ymax (an
\* absent bound excludes nothing); every visited trace, drawn or skipped, is
\* inside the running min_y, max_y and max_x.  Without clip_partial_traces
\* every visited trace is drawn.
C7_ClipExplicitBounds ==
    Plotting =>
        /\ drawn \subseteq seen
        /\ \A p \in seen :
              /\ p \in drawn <=> (~clip_partial_traces \/ NoneOutside(YOf(p[1], p[2])))
              /\ \A n \in 1..Len(YOf(p[1], p[2])) :
                    /\ ~Lt(YOf(p[1], p[2])[n], min_y)
                    /\ ~Gt(YOf(p[1], p[2])[n], max_y)
                    /\ ~Gt(XOf(p[1], p[2])[n], max_x)
              /\ p \notin drawn =>
                    \A n \in 1..Len(YOf(p[1], p[2])) :
                        /\ Le(min_y, YOf(p[1], p[2])[n])
                        /\ Le(YOf(p[1], p[2])[n], max_y)

\* C7 witness: one trace was skipped for exceeding the explicit ymax and it
\* set max_y; another trace was drawn
C7_Witness ==
    /\ pc = "limits"
    /\ clip_partial_traces /\ ymax = Num(12) /\ ymin = None
    /\ \E p \in seen \ drawn : PyMax(YOf(p[1], p[2])) = max_y /\ IsFinite(max_y)
    /\ drawn # {}

----------------------------------------------------------------------------
(* Time axis: explicit and absent x bounds *)

InitTime ==
    InitWith(SufileLists,
             Files({Tr(H10, Up(n)) : n \in {1, MaxNpts}}),
             {<<Tr(H20, Up(MaxNpts))>>},
             {[Defaults EXCEPT !.trim_to_smallest_trace = b,
                               !.xmin = lo, !.xmax = hi] :
                 b \in BOOLEAN,
                 lo \in {None, Num(-5), Zero, Norm(1, 500)},
                 hi \in {None, Norm(1, 1000), Num(1), Num(-1)}})

SpecTime == InitTime /\ [][Next]_vars

MaxInt(S) == CHOOSE m \in S : \A n \in S : m >= n
\* the largest sample time of the plotted traces, in seconds
ObservedMaxTime ==
    LET longest == MaxInt(UNION {{Len(heap[o][t].data) : t \in 1..Len(heap[o])} :
                                    o \in Objects})
    IN  Norm((longest - 1) * delta, 1000000)

\* C8: the lower x bound is 0 when xmin is absent or negative and xmin
\* otherwise; the upper x bound is xmax when it is given and not larger than
\* the observed maximum time, and the observed maximum time otherwise.  The
\* lower bound is never negative, the upper never above the observed maximum.
C8_TimeAxis ==
    Limited =>
        /\ max_x = ObservedMaxTime
        /\ xlim[1] = IF xmin = None \/ Lt(xmin, Zero) THEN Zero ELSE xmin
        /\ xlim[2] = IF xmax # None /\ Le(xmax, ObservedMaxTime) THEN xmax
                     ELSE ObservedMaxTime
        /\ Le(Zero, xlim[1])
        /\ Le(xlim[2], ObservedMaxTime)

\* C8 witness: a negative xmin was floored to 0 and an xmax below the observed
\* maximum time was kept
C8_Witness ==
    /\ pc = "done" /\ streams # <<>>
    /\ xmin = Num(-5) /\ xlim[1] = Zero
    /\ xmax = Norm(1, 1000) /\ xlim[2] = xmax /\ Lt(xmax, max_x)

----------------------------------------------------------------------------
(* Output: every combination of outfile, format and fig *)

\* one object listed six times, and six objects
LongLists ==
    {[k \in 1..(PaletteSize + 1) |-> 1], [k \in 1..(PaletteSize + 1) |-> k]}

InitOutput ==
    InitWith(SufileLists \cup LongLists,
             Files({Tr(H10, Arr(<<0, 1>>)), Tr(H0, Arr(<<1, 0>>))}),
             {<<Tr(H20, Arr(<<0, 1>>))>>},
             {[Defaults EXCEPT !.fig = f, !.outfile = o, !.format = m] :
                 f \in {"None", "fig1"}, o \in {"None", "out.png"},
                 m \in {"None", "", "png"}})

SpecOutput == InitOutput /\ [][Next]_vars

Given(v) == v # "None"

Ended == pc \in {"done", "raised"}

\* C9 as stated: a run over a non-empty input performs exactly one of the
\* four output actions (return the caller's canvas, show, write outfile,
\* return an image buffer), the one its outfile / format / fig select, never
\* two and never none; a run over an empty input performs none, creates no
\* canvas and returns None.
C9_OneOutput ==
    /\ Len(outputs) <= 1
    /\ Ended =>
          IF sufiles = <<>>
          THEN outputs = <<>> /\ fig_ = "None" /\ retval = "None"
          ELSE /\ Len(outputs) = 1
               /\ outputs[1] \in {"return_fig", "show", "savefig", "imgdata"}
               /\ outputs[1] = "savefig" <=> Given(outfile)
               /\ outputs[1] = "imgdata" <=>
                     ~Given(outfile) /\ Given(format) /\ format # ""
               /\ outputs[1] = "return_fig" <=>
                     ~Given(outfile) /\ ~(Given(format) /\ format # "") /\ Given(fig)
               /\ outputs[1] = "return_fig" => retval = fig /\ fig_ = fig
               /\ outputs[1] = "imgdata" => retval = "imgdata"
               /\ outputs[1] \in {"show", "savefig"} => retval = "None"

----------------------------------------------------------------------------
(* Normalization *)

Normalized == pc \in {"figure", "plot", "limits", "output", "done"} /\ streams # <<>>
Special(a) == a[2] = 0

\* C4 as stated: under 'traces', after normalization every trace's
\* max - min equals min_offset * scale.
C4_TraceRangeIsSpacing ==
    (Normalized /\ normalize = "traces") =>
        \A o \in Objects : \A t \in 1..Len(heap[o]) :
            Sub(NpMax(heap[o][t].data), NpMin(heap[o][t].data))
               = Mul(min_offset, scale)

\* C5 as stated: a zero amplitude range ends the run in an error, leaves no
\* trace holding NaN or infinite samples, and no trace is drawn.
C5_ZeroRangeFails ==
    zeroRange =>
        /\ pc = "error"
        /\ \A o \in DOMAIN heap : \A t \in 1..Len(heap[o]) :
              \A n \in 1..Len(heap[o][t].data) : ~Special(heap[o][t].data[n])
        /\ drawn = {}

\* C10 as stated: each trace is rescaled exactly once, after every trace has
\* been trimmed, and every trace is rescaled before any offset is added.
C10_RescaledOnce ==
    /\ (\E o \in DOMAIN heap : \E t \in 1..Len(heap[o]) : normCount[o][t] > 0) =>
          (trim_to_smallest_trace =>
              \A o \in Objects : \A t \in 1..Len(heap[o]) :
                  Len(heap[o][t].data) = npts)
    /\ seen # {} =>
          \A o \in Objects : \A t \in 1..Len(heap[o]) : normCount[o][t] >= 1
    /\ Normalized =>
          \A o \in Objects : \A t \in 1..Len(heap[o]) : normCount[o][t] = 1

====
